---- MODULE Spec2Model ----
(***************************************************************************)
(* A model of app.py: the TTL cache and the metadata endpoint              *)
(* (/api/tiktok), rendition selection in extract_info, safe_filename, and   *)
(* the download endpoint (/api/tiktok/download) with its two strategies,    *)
(* temporary directory, delivery and cleanup.                               *)
(*                                                                         *)
(* Spec      the metadata endpoint, requests interleaved statement by       *)
(*           statement on the shared _CACHE (the handlers are sync `def`s,  *)
(*           which the framework runs on worker threads).                   *)
(* SeqSpec   the same steps with one request in flight at a time.           *)
(* SelectSpec   extract_info's choice of direct_url, over bounded results   *)
(*           of the extractor.                                              *)
(* FilenameSpec safe_filename, over bounded names.                          *)
(* DownloadSpec one request to the download endpoint, from its metadata     *)
(*           lookup to the end of delivery and cleanup; the extractor, the  *)
(*           files it writes and the transport are the environment.         *)
(***************************************************************************)
EXTENDS Integers, Sequences, FiniteSets, TLC

\* ------------------------------------------------------------------ bounds
NReq == 2          \* requests that may be in flight together
NVals == 2         \* distinct results the extractor may return
MaxTicks == 3      \* clock advances in one behaviour
MaxFormats == 2    \* format descriptors in one extraction result
MaxLen == 3        \* characters of an enumerated short name

\* --------------------------------------------------------------- constants
TTL_SECONDS == 600
MaxBase == 100     \* base[:100]

VARIABLES
    \* metadata endpoint
    cache,      \* _CACHE: url -> row, NoRow where the key is absent
    now,        \* time.time(), in seconds
    pc,         \* each request's position in api_tiktok
    url,        \* each request's url argument
    row,        \* cache_get's local `row`
    data,       \* api_tiktok's local `data` (0: none)
    before,     \* history: _CACHE[url] as it was when the request entered
    lastSet,    \* history: url -> value and time of the latest cache_set
    \* extract_info
    raw,        \* what ydl.extract_info returned
    direct,     \* extract_info's local `direct`
    spc,        \* "input": not yet selected, "done": direct_url computed
    \* safe_filename
    name,       \* the `name` argument, a character sequence or NoName
    fname,      \* the returned file name
    fpc,        \* "input": not yet called, "done": returned
    \* download endpoint
    dpc,        \* the request's position in api_tiktok_download
    hint,       \* title_hint: meta.get("title") or meta.get("id")
    tmp,        \* whether the request's tmpdir exists
    files,      \* tmpdir's entries: file name -> the strategy that wrote it
    tried,      \* history: the strategies attempted, in order
    resA,       \* what try_download(opts1) returned
    resB,       \* what try_download(opts2) returned
    path,       \* yt_dlp_download_to_temp's local `path`
    dlname,     \* the suggested file name
    status,     \* the response's status (0: none yet)
    detail,     \* the error response's message
    delivery    \* the transport: "none", "sending", "ok", "failed"

cacheVars == <<cache, now, pc, url, row, data, before, lastSet>>
selectVars == <<raw, direct, spc>>
nameVars == <<name, fname, fpc>>
downloadVars ==
    <<dpc, hint, tmp, files, tried, resA, resB, path, dlname, status, detail, delivery>>
vars == <<cacheVars, selectVars, nameVars, downloadVars>>

Reqs == 1..NReq
Urls == {"u1", "u2"}
Vals == 1..NVals

NoRow == [val |-> 0, exp |-> 0]
NoUrl == "-"
EmptyCache == [u \in Urls |-> NoRow]
NeverSet == [val |-> 0, at |-> -1]

\* ------------------------------------------------------ cache_get/cache_set
ExpiredLate(r, t) == t > r.exp + 1

\* line 78: the expiry test on the row read at line 76
Expired(r, t) == t > r.exp

\* line 82: the row cache_set stores
NewRow(v, t) == [val |-> v, exp |-> t + TTL_SECONDS]

\* ------------------------------------------------------------------- clock
\* The clock only moves forward; steps of one second and of one TTL reach
\* both sides of every expiry. A behaviour takes at most MaxTicks steps.
TicksTaken(t) == (t \div TTL_SECONDS) + (t % TTL_SECONDS)

Tick ==
    /\ TicksTaken(now) < MaxTicks
    /\ \E d \in {1, TTL_SECONDS} : now' = now + d
    /\ UNCHANGED <<cache, pc, url, row, data, before, lastSet>>
    /\ UNCHANGED <<selectVars, nameVars, downloadVars>>

\* -------------------------------------------------------------- api_tiktok
\* line 165: a request arrives
Start(p) ==
    /\ pc[p] = "idle"
    /\ \E u \in Urls :
        /\ url' = [url EXCEPT ![p] = u]
        /\ before' = [before EXCEPT ![p] = cache[u]]
    /\ pc' = [pc EXCEPT ![p] = "read"]
    /\ UNCHANGED <<cache, now, row, data, lastSet>>
    /\ UNCHANGED <<selectVars, nameVars, downloadVars>>

\* lines 76-77: row = _CACHE.get(url); if not row: return None
GetRead(p) ==
    /\ pc[p] = "read"
    /\ row' = [row EXCEPT ![p] = cache[url[p]]]
    /\ pc' = [pc EXCEPT ![p] = IF cache[url[p]] = NoRow THEN "extract" ELSE "test"]
    /\ UNCHANGED <<cache, now, url, data, before, lastSet>>
    /\ UNCHANGED <<selectVars, nameVars, downloadVars>>

\* lines 78-79 and 167: the expiry test; an unexpired row is returned and
\* the handler answers with it
GetTest(p) ==
    /\ pc[p] = "test"
    /\ pc' = [pc EXCEPT ![p] = IF Expired(row[p], now) THEN "pop" ELSE "hit"]
    /\ UNCHANGED <<cache, now, url, row, data, before, lastSet>>
    /\ UNCHANGED <<selectVars, nameVars, downloadVars>>

\* line 78: _CACHE.pop(url, None); return None
GetPop(p) ==
    /\ pc[p] = "pop"
    /\ cache' = [cache EXCEPT ![url[p]] = NoRow]
    /\ pc' = [pc EXCEPT ![p] = "extract"]
    /\ UNCHANGED <<now, url, row, data, before, lastSet>>
    /\ UNCHANGED <<selectVars, nameVars, downloadVars>>

\* line 168: extract_info(url) returns
ExtractOk(p) ==
    /\ pc[p] = "extract"
    /\ \E v \in Vals : data' = [data EXCEPT ![p] = v]
    /\ pc' = [pc EXCEPT ![p] = "set"]
    /\ UNCHANGED <<cache, now, url, row, before, lastSet>>
    /\ UNCHANGED <<selectVars, nameVars, downloadVars>>

\* line 168: extract_info(url) raises; nothing catches it
ExtractFail(p) ==
    /\ pc[p] = "extract"
    /\ pc' = [pc EXCEPT ![p] = "error"]
    /\ UNCHANGED <<cache, now, url, row, data, before, lastSet>>
    /\ UNCHANGED <<selectVars, nameVars, downloadVars>>

AfterExtractEarly == "extract"

\* The position a request is in after the extractor has returned.
AfterExtract == "set"

\* lines 169-170: cache_set(url, data); return JSONResponse(data)
CacheSet(p) ==
    /\ pc[p] = AfterExtract
    /\ cache' = [cache EXCEPT ![url[p]] = NewRow(data[p], now)]
    /\ lastSet' = [lastSet EXCEPT ![url[p]] = [val |-> data[p], at |-> now]]
    /\ pc' = [pc EXCEPT ![p] = "stored"]
    /\ UNCHANGED <<now, url, row, data, before>>
    /\ UNCHANGED <<selectVars, nameVars, downloadVars>>

\* the response has been handed over; the worker takes the next request
Finish(p) ==
    /\ pc[p] \in {"hit", "stored", "error"}
    /\ pc' = [pc EXCEPT ![p] = "idle"]
    /\ url' = [url EXCEPT ![p] = NoUrl]
    /\ row' = [row EXCEPT ![p] = NoRow]
    /\ data' = [data EXCEPT ![p] = 0]
    /\ before' = [before EXCEPT ![p] = NoRow]
    /\ UNCHANGED <<cache, now, lastSet>>
    /\ UNCHANGED <<selectVars, nameVars, downloadVars>>

Step(p) ==
    \/ Start(p)
    \/ GetRead(p)
    \/ GetTest(p)
    \/ GetPop(p)
    \/ ExtractOk(p)
    \/ ExtractFail(p)
    \/ CacheSet(p)
    \/ Finish(p)

\* ----------------------------------------------------------- safe_filename
\* Names are character sequences; NoName is Python's None.
NoName == <<"<None>">>
Fallback == <<"v", "i", "d", "e", "o">>
DotMp4 == <<".", "m", "p", "4">>

\* line 86: the characters the pattern [<>:"/\\|?*\n\r\t] matches
Forbidden == {"<", ">", ":", "\"", "/", "\\", "|", "?", "*", "\n", "\r", "\t"}

\* the characters str.strip() removes from both ends
Whitespace == {" ", "\t", "\n", "\r", "\f"}

\* line 85: str.strip()
RECURSIVE StripLeft(_)
StripLeft(s) ==
    IF s # <<>> /\ Head(s) \in Whitespace THEN StripLeft(Tail(s)) ELSE s

RECURSIVE StripRight(_)
StripRight(s) ==
    IF s # <<>> /\ s[Len(s)] \in Whitespace
    THEN StripRight(SubSeq(s, 1, Len(s) - 1)) ELSE s

Strip(s) == StripRight(StripLeft(s))

\* line 85: name or fallback
OrDefault(n) == IF n = NoName \/ n = <<>> THEN Fallback ELSE n

\* line 86: re.sub(pattern, "_", base)
Replace(s) == [i \in DOMAIN s |-> IF s[i] \in Forbidden THEN "_" ELSE s[i]]

\* line 87: base[:100]
Truncate(s) == SubSeq(s, 1, IF Len(s) < MaxBase THEN Len(s) ELSE MaxBase)

OrFallbackDropped(b) == b

\* line 87: ... or fallback
OrFallback(b) == IF b = <<>> THEN Fallback ELSE b

\* lines 84-88
safe_filename(n) == OrFallback(Truncate(Replace(Strip(OrDefault(n))))) \o DotMp4

\* the names tried: every short name over a small alphabet, names around the
\* 100-character cut, None, and the documented example
Alphabet == {"a", " ", ":", "\t"}
ShortNames == UNION { [1..n -> Alphabet] : n \in 0..MaxLen }
EndNames == {s \in ShortNames : Len(s) <= 1}
Fill(c, k) == [i \in 1..k |-> c]
LongNames ==
    { pre \o Fill(c, k) \o suf :
        pre \in EndNames, suf \in EndNames, c \in {"a", ":"},
        k \in {MaxBase - 1, MaxBase, MaxBase + 1} }
Example ==
    <<"M", "y", ":", " ", "V", "i", "d", "e", "o", "?", " ", "<", "T", "e", "s", "t", ">">>
ExampleResult ==
    <<"M", "y", "_", " ", "V", "i", "d", "e", "o", "_", " ", "_", "T", "e", "s", "t", "_",
      ".", "m", "p", "4">>
Names == ShortNames \cup LongNames \cup {NoName, Example}

SafeFilename ==
    /\ fpc = "input"
    /\ fname' = safe_filename(name)
    /\ fpc' = "done"
    /\ UNCHANGED name
    /\ UNCHANGED <<cacheVars, selectVars, downloadVars>>

\* ------------------------------------------------------------ extract_info
\* Python's None, for a string-valued and for a number-valued field.
NoStr == "<None>"
NoNum == -1

\* `x or 0` and the truth value of a string-valued field
OrZero(x) == IF x = NoNum THEN 0 ELSE x
Truthy(s) == s # NoStr /\ s # ""

\* codec names, as character sequences (<<>> stands for a missing vcodec,
\* which line 101 reads as "")
NoCodec == <<>>
Avc1 == <<"a", "v", "c", "1">>
Hev1 == <<"h", "e", "v", "1">>
Vcodecs == {NoCodec, Avc1, Hev1}

\* `sub in s` for character sequences
Contains(s, sub) ==
    \E i \in 0..(Len(s) - Len(sub)) :
        \A k \in 1..Len(sub) : s[i + k] = sub[k]

\* A format descriptor as the extractor supplies it. A descriptor's fetch URL
\* is missing, empty, or a URL of its own ("f<position>").
Exts == {"mp4", "webm"}
Heights == {NoNum, 1, 2}
Rates == {NoNum, 1}
UrlKinds == {NoStr, "", "own"}
OwnUrl == <<"f1", "f2", "f3", "f4">>

DescShapes ==
    [ext : Exts, vcodec : Vcodecs, height : Heights, fps : Rates, tbr : Rates,
     url : UrlKinds]

Placed(shapes) ==
    [i \in DOMAIN shapes |->
        [shapes[i] EXCEPT !.url = IF @ = "own" THEN OwnUrl[i] ELSE @]]

FormatLists ==
    { Placed(sh) : sh \in UNION { [1..n -> DescShapes] : n \in 0..MaxFormats } }

\* requested_formats: absent (<<>>), or one entry with or without a url
RequestedLists == {<<>>, <<[url |-> NoStr]>>, <<[url |-> "r1"]>>}

Items ==
    [requested_formats : RequestedLists, url : {NoStr, "t1"}, formats : FormatLists]

NoItem == [requested_formats |-> <<>>, url |-> NoStr, formats |-> <<>>]

\* The extractor's result: one item, or a collection with its `entries`.
RawResults ==
    [hasEntries : {FALSE}, entries : {<<>>}, self : Items]
    \cup [hasEntries : {TRUE}, entries : {<<it>> : it \in Items} \cup {<<>>},
          self : {NoItem}]

\* lines 93-94: the first item of a collection
Unwrap(r) == IF r.hasEntries /\ r.entries # <<>> THEN r.entries[1] ELSE r.self

\* lines 103, 108: the sort key
Key(f) == <<OrZero(f.height), OrZero(f.fps), OrZero(f.tbr)>>

KeyHeightOnly(a, b) == a[1] < b[1]

\* Python's tuple comparison, a < b
KeyLess(a, b) ==
    \/ a[1] < b[1]
    \/ a[1] = b[1] /\ a[2] < b[2]
    \/ a[1] = b[1] /\ a[2] = b[2] /\ a[3] < b[3]

\* list.sort(key=..., reverse=True): stable, greatest key first
RECURSIVE InsertDesc(_, _)
InsertDesc(f, sorted) ==
    IF sorted = <<>> THEN <<f>>
    ELSE IF KeyLess(Key(Head(sorted)), Key(f))
         THEN <<f>> \o sorted
         ELSE <<Head(sorted)>> \o InsertDesc(f, Tail(sorted))

RECURSIVE SortDesc(_)
SortDesc(fs) ==
    IF fs = <<>> THEN <<>>
    ELSE InsertDesc(fs[Len(fs)], SortDesc(SubSeq(fs, 1, Len(fs) - 1)))

\* line 101: the preferred descriptors
IsPref(f) == f.ext = "mp4" /\ Contains(f.vcodec, <<"a", "v", "c">>)

\* line 106
HasUrl(f) == Truthy(f.url)

\* lines 100-109: `d` is direct as it stands, kept when no descriptor is used
FromFormats(fmts, d) ==
    LET pref == SelectSeq(fmts, IsPref)
        withUrl == SelectSeq(fmts, HasUrl)
    IN  IF pref # <<>> THEN SortDesc(pref)[1].url
        ELSE IF withUrl # <<>> THEN SortDesc(withUrl)[1].url
        ELSE d

\* lines 95-109
DirectUrl(info) ==
    LET d1 == IF info.requested_formats # <<>>
              THEN info.requested_formats[1].url ELSE NoStr
        d2 == IF ~Truthy(d1) /\ Truthy(info.url) THEN info.url ELSE d1
    IN  IF ~Truthy(d2) /\ info.formats # <<>> THEN FromFormats(info.formats, d2) ELSE d2

\* extract_info, lines 90-118: the direct_url of the result
SelectDirect ==
    /\ spc = "input"
    /\ direct' = DirectUrl(Unwrap(raw))
    /\ spc' = "done"
    /\ UNCHANGED raw
    /\ UNCHANGED <<cacheVars, nameVars, downloadVars>>

\* ------------------------------------------------- yt_dlp_download_to_temp
\* A file name in tmpdir: its stem and its extension. The extractor's output
\* template is <id>.<ext>; a merge first fetches <id>.f<n>.<ext>.
Id == <<"i", "d">>
IdF1 == <<"i", "d", ".", "f", "1">>
FileNames ==
    { [stem |-> Id, ext |-> "mp4"], [stem |-> IdF1, ext |-> "mp4"],
      [stem |-> Id, ext |-> "MP4"], [stem |-> Id, ext |-> "webm"] }
NoPath == [stem |-> <<>>, ext |-> ""]
EmptyDir == [f \in FileNames |-> "none"]
Exists(fs, f) == f \in FileNames /\ fs[f] # "none"

\* line 150: name.lower().endswith(".mp4")
Lower(e) == IF e = "MP4" THEN "mp4" ELSE e
IsMp4(f) == Lower(f.ext) = "mp4"

\* What one run of the extractor in download mode does: it writes some files
\* into tmpdir, and then raises or returns; `rd` is the filepath of its first
\* requested download (NoPath: no requested_downloads, or no filepath).
Outcomes == [raised : BOOLEAN, rd : FileNames \cup {NoPath}]
Written(fs, W, strategy) == [f \in FileNames |-> IF f \in W THEN strategy ELSE fs[f]]

\* try_download, lines 142-154: the paths it may return (os.listdir lists in
\* any order)
TryDownload(fs, out) ==
    IF out.raised THEN {NoPath}
    ELSE IF Exists(fs, out.rd) THEN {out.rd}
    ELSE IF \E f \in FileNames : Exists(fs, f) /\ IsMp4(f)
         THEN {f \in FileNames : Exists(fs, f) /\ IsMp4(f)}
         ELSE {NoPath}

NeedsBAlways(a) == TRUE

\* line 156: `try_download(opts1) or try_download(opts2)` evaluates the
\* second call only when the first returned None
NeedsB(a) == a = NoPath

\* line 157
Failed(fs, pth) == pth = NoPath \/ ~Exists(fs, pth)

FailureMessage == "Download failed (ffmpeg missing or unsupported format)."

\* what extract_info reports as title and id
Titles == {NoName, <<"M", "y", ":">>}
Ids == {NoName, <<"7">>}
\* `a or b` on names
NameOr(a, b) == IF a = NoName \/ a = <<>> THEN b ELSE a

\* ---------------------------------------------------- api_tiktok_download
\* line 173: the request arrives
BeginDownload ==
    /\ dpc = "idle"
    /\ dpc' = "meta"
    /\ UNCHANGED <<hint, tmp, files, tried, resA, resB, path, dlname, status, detail,
                   delivery>>
    /\ UNCHANGED <<cacheVars, selectVars, nameVars>>

\* lines 174-175: extract_info(url) returns; the hint is title or id
MetaOk ==
    /\ dpc = "meta"
    /\ \E t \in Titles, i \in Ids : hint' = NameOr(t, i)
    /\ dpc' = "mkdtemp"
    /\ UNCHANGED <<tmp, files, tried, resA, resB, path, dlname, status, detail, delivery>>
    /\ UNCHANGED <<cacheVars, selectVars, nameVars>>

\* line 174: extract_info(url) raises; nothing catches it and the framework
\* answers with a server error
MetaFail ==
    /\ dpc = "meta"
    /\ status' = 500
    /\ detail' = "Internal Server Error"
    /\ dpc' = "done"
    /\ UNCHANGED <<hint, tmp, files, tried, resA, resB, path, dlname, delivery>>
    /\ UNCHANGED <<cacheVars, selectVars, nameVars>>

\* lines 126-127: a fresh, empty directory of the request's own
MkTemp ==
    /\ dpc = "mkdtemp"
    /\ tmp' = TRUE
    /\ files' = EmptyDir
    /\ dpc' = "tryA"
    /\ UNCHANGED <<hint, tried, resA, resB, path, dlname, status, detail, delivery>>
    /\ UNCHANGED <<cacheVars, selectVars, nameVars>>

\* line 156, first operand: try_download(opts1), Strategy A
TryA ==
    /\ dpc = "tryA"
    /\ \E W \in SUBSET FileNames, out \in Outcomes :
        /\ files' = Written(files, W, "A")
        /\ \E r \in TryDownload(files', out) :
            /\ resA' = r
            /\ dpc' = IF NeedsB(r) THEN "tryB" ELSE "check"
            /\ path' = r
    /\ tried' = Append(tried, "A")
    /\ UNCHANGED <<hint, tmp, resB, dlname, status, detail, delivery>>
    /\ UNCHANGED <<cacheVars, selectVars, nameVars>>

\* line 156, second operand: try_download(opts2), Strategy B
TryB ==
    /\ dpc = "tryB"
    /\ \E W \in SUBSET FileNames, out \in Outcomes :
        /\ files' = Written(files, W, "B")
        /\ \E r \in TryDownload(files', out) :
            /\ resB' = r
            /\ path' = r
    /\ tried' = Append(tried, "B")
    /\ dpc' = "check"
    /\ UNCHANGED <<hint, tmp, resA, dlname, status, detail, delivery>>
    /\ UNCHANGED <<cacheVars, selectVars, nameVars>>

\* lines 157-159: no file: remove tmpdir and raise HTTPException(400, ...)
GiveUp ==
    /\ dpc = "check"
    /\ Failed(files, path)
    /\ files' = EmptyDir
    /\ tmp' = FALSE
    /\ status' = 400
    /\ detail' = FailureMessage
    /\ dpc' = "done"
    /\ UNCHANGED <<hint, tried, resA, resB, path, dlname, delivery>>
    /\ UNCHANGED <<cacheVars, selectVars, nameVars>>

\* lines 161-162 and 176-182: the file name is computed and the handler
\* returns FileResponse(path, ..., background=BackgroundTask(cleanup)); the
\* transport starts sending the file
Respond ==
    /\ dpc = "check"
    /\ ~Failed(files, path)
    /\ dlname' = safe_filename(NameOr(hint, path.stem))
    /\ status' = 200
    /\ delivery' = "sending"
    /\ dpc' = "sending"
    /\ UNCHANGED <<hint, tmp, files, tried, resA, resB, path, detail>>
    /\ UNCHANGED <<cacheVars, selectVars, nameVars>>

\* line 182: the body has been sent; the background task is due
DeliverOk ==
    /\ dpc = "sending"
    /\ delivery' = "ok"
    /\ dpc' = "task"
    /\ UNCHANGED <<hint, tmp, files, tried, resA, resB, path, dlname, status, detail>>
    /\ UNCHANGED <<cacheVars, selectVars, nameVars>>

\* line 182: sending stops short (the client is gone) without an exception
\* reaching the response; the background task is due
DeliverFailQuiet ==
    /\ dpc = "sending"
    /\ delivery' = "failed"
    /\ dpc' = "task"
    /\ UNCHANGED <<hint, tmp, files, tried, resA, resB, path, dlname, status, detail>>
    /\ UNCHANGED <<cacheVars, selectVars, nameVars>>

\* line 182: sending raises out of the response. The response awaits its
\* background task only after the last chunk of the body is sent, so the
\* task is never run.
DeliverFailRaise ==
    /\ dpc = "sending"
    /\ delivery' = "failed"
    /\ dpc' = "done"
    /\ UNCHANGED <<hint, tmp, files, tried, resA, resB, path, dlname, status, detail>>
    /\ UNCHANGED <<cacheVars, selectVars, nameVars>>

\* lines 176-181: cleanup(): os.remove(path) if it exists, then
\* shutil.rmtree(dirname(path)) if it is a directory
Cleanup ==
    /\ dpc = "task"
    /\ LET removed == IF Exists(files, path) THEN [files EXCEPT ![path] = "none"]
                      ELSE files
       IN  IF tmp THEN files' = EmptyDir /\ tmp' = FALSE
           ELSE files' = removed /\ tmp' = tmp
    /\ dpc' = "done"
    /\ UNCHANGED <<hint, tried, resA, resB, path, dlname, status, detail, delivery>>
    /\ UNCHANGED <<cacheVars, selectVars, nameVars>>

\* ---------------------------------------------------------- specifications
InitCache ==
    /\ cache = EmptyCache
    /\ now = 0
    /\ pc = [p \in Reqs |-> "idle"]
    /\ url = [p \in Reqs |-> NoUrl]
    /\ row = [p \in Reqs |-> NoRow]
    /\ data = [p \in Reqs |-> 0]
    /\ before = [p \in Reqs |-> NoRow]
    /\ lastSet = [u \in Urls |-> NeverSet]

InitSelect ==
    /\ raw = [hasEntries |-> FALSE, entries |-> <<>>, self |-> NoItem]
    /\ direct = NoStr
    /\ spc = "input"

InitName ==
    /\ name = NoName
    /\ fname = <<>>
    /\ fpc = "input"

InitDownload ==
    /\ dpc = "idle"
    /\ hint = NoName
    /\ tmp = FALSE
    /\ files = EmptyDir
    /\ tried = <<>>
    /\ resA = NoPath
    /\ resB = NoPath
    /\ path = NoPath
    /\ dlname = <<>>
    /\ status = 0
    /\ detail = ""
    /\ delivery = "none"

Init == InitCache /\ InitSelect /\ InitName /\ InitDownload

Next ==
    \/ Tick
    \/ \E p \in Reqs : Step(p)

Spec == Init /\ [][Next]_vars

\* One request in flight at a time.
Alone(p) == \A q \in Reqs \ {p} : pc[q] = "idle"

\* line 165, with no other request in flight
SeqStart(p) == Alone(p) /\ Start(p)

SeqNext ==
    \/ Tick
    \/ \E p \in Reqs :
        \/ SeqStart(p)
        \/ GetRead(p)
        \/ GetTest(p)
        \/ GetPop(p)
        \/ ExtractOk(p)
        \/ ExtractFail(p)
        \/ CacheSet(p)
        \/ Finish(p)

SeqSpec == Init /\ [][SeqNext]_vars

SelectInit ==
    /\ InitCache
    /\ InitName
    /\ InitDownload
    /\ raw \in RawResults
    /\ direct = NoStr
    /\ spc = "input"

SelectNext == SelectDirect

SelectSpec == SelectInit /\ [][SelectNext]_vars

FilenameInit ==
    /\ InitCache
    /\ InitSelect
    /\ InitDownload
    /\ name \in Names
    /\ fname = <<>>
    /\ fpc = "input"

FilenameNext == SafeFilename

FilenameSpec == FilenameInit /\ [][FilenameNext]_vars

DownloadNext ==
    \/ BeginDownload
    \/ MetaOk
    \/ MetaFail
    \/ MkTemp
    \/ TryA
    \/ TryB
    \/ GiveUp
    \/ Respond
    \/ DeliverOk
    \/ DeliverFailQuiet
    \/ DeliverFailRaise
    \/ Cleanup

DownloadSpec == Init /\ [][DownloadNext]_vars

\* ------------------------------------------------------------------ claims

\* ---- cache_get / cache_set
\* the step in which cache_get decides to answer with the row's value
C1_HitStep ==
    \A p \in Reqs :
        (pc[p] = "test" /\ pc'[p] = "hit") =>
            /\ lastSet[url[p]].at >= 0
            /\ now <= lastSet[url[p]].at + TTL_SECONDS
            /\ cache' = cache

C1_ExpiryFixed ==
    \A u \in Urls :
        cache[u] # NoRow => cache[u].exp = lastSet[u].at + TTL_SECONDS

\* C1. cache_get(url) answers with a value only while the clock is not later
\* than the latest cache_set(url) plus 600 seconds (so past that expiry it
\* answers nothing until a new cache_set), and a hit leaves the cache, and
\* with it the entry's expiry, as it was: every entry expires 600 seconds
\* after the cache_set that wrote it.
C1_ServedOnlyWithinTtl == [][C1_HitStep]_vars /\ []C1_ExpiryFixed

\* a hit in the last second of the entry's life
C1_Witness ==
    \E p \in Reqs :
        /\ pc[p] = "hit"
        /\ row[p] = cache[url[p]]
        /\ now = lastSet[url[p]].at + TTL_SECONDS

\* C2 as stated: when the extractor raises, the entry for the request's key
\* is exactly what it was when the request entered; a hit writes nothing and
\* calls no extractor.
C2_Original ==
    \A p \in Reqs :
        /\ pc[p] = "error" => cache[url[p]] = before[p]
        /\ pc[p] = "hit" => (cache[url[p]] = before[p] /\ data[p] = 0)

\* ---- api_tiktok
\* every change of the cache map is a request's own pop or cache_set
C2_WriteStep ==
    \A u \in Urls :
        (cache'[u] # cache[u]) =>
            \E p \in Reqs :
                /\ url[p] = u
                /\ \/ pc[p] = "pop" /\ cache'[u] = NoRow
                   \/ /\ pc[p] = "set"
                      /\ data[p] \in Vals
                      /\ cache'[u] = NewRow(data[p], now)

C2_AfterRequest ==
    \A p \in Reqs :
        /\ pc[p] = "error" =>
              \/ cache[url[p]] = before[p]
              \/ /\ cache[url[p]] = NoRow
                 /\ before[p] # NoRow
                 /\ Expired(before[p], now)
        /\ pc[p] = "hit" => (cache[url[p]] = before[p] /\ data[p] = 0)

\* C2 as amended: the cache is written (an entry created or changed) only by
\* the cache_set of a request whose extractor has returned, and only at that
\* request's key. When the extractor raises, the key's entry is what it was
\* when the request entered, except that an entry that had expired is gone:
\* the request's own cache_get dropped it. A hit writes nothing and calls no
\* extractor.
C2_Amended == [][C2_WriteStep]_vars /\ []C2_AfterRequest

\* the extractor raised after the request's cache_get dropped an expired entry
C2_Witness ==
    \E p \in Reqs :
        /\ pc[p] = "error"
        /\ before[p] # NoRow
        /\ cache[url[p]] = NoRow

\* ---- concurrent requests
AllIdle == \A p \in Reqs : pc[p] = "idle"

C9_RemoveStep ==
    \A u \in Urls :
        (cache[u] # NoRow /\ cache'[u] = NoRow) => Expired(cache[u], now)

C9_LastWriterWins ==
    AllIdle =>
        \A u \in Urls :
            (lastSet[u].at >= 0 /\ ~Expired(NewRow(lastSet[u].val, lastSet[u].at), now))
                => cache[u] = NewRow(lastSet[u].val, lastSet[u].at)

\* C9 as stated: under any interleaving an entry is removed only if that
\* entry is itself expired, and once every request has finished the entry of
\* a url is the one its latest cache_set wrote, unless that one has expired.
C9_Original == [][C9_RemoveStep]_vars /\ []C9_LastWriterWins

\* ---- extract_info
Selected == Unwrap(raw)
Idx == DOMAIN Selected.formats
PrefIdx == { i \in Idx : IsPref(Selected.formats[i]) }
UrlIdx == { i \in Idx : HasUrl(Selected.formats[i]) }
\* (height, fps, tbr) with missing values counted as 0, and its order
Quality(f) ==
    <<IF f.height = NoNum THEN 0 ELSE f.height,
      IF f.fps = NoNum THEN 0 ELSE f.fps,
      IF f.tbr = NoNum THEN 0 ELSE f.tbr>>
AtLeast(a, b) ==
    \E k \in 1..4 :
        /\ \A m \in 1..(k - 1) : a[m] = b[m]
        /\ k <= 3 => a[k] > b[k]
MaximalIn(i, S) ==
    /\ i \in S
    /\ \A j \in S : AtLeast(Quality(Selected.formats[i]), Quality(Selected.formats[j]))

\* a usable rendition exists
UsableExists ==
    \/ Selected.requested_formats # <<>> /\ Truthy(Selected.requested_formats[1].url)
    \/ Truthy(Selected.url)
    \/ UrlIdx # {}

\* C6 as stated: direct_url is null only if no usable rendition exists: with
\* a first requested format that has a URL, a top-level URL, or a descriptor
\* with a non-empty fetch URL, direct_url is non-null; and a non-null
\* direct_url is a non-empty URL, never one taken from a descriptor that lacks
\* a fetch URL.
C6_Original ==
    spc = "done" =>
        /\ UsableExists => direct # NoStr
        /\ direct # NoStr => direct # ""

\* C7. With neither requested formats nor a top-level URL: if a descriptor has
\* ext "mp4" and a vcodec containing "avc", direct_url is the URL of a
\* descriptor maximal by (height, fps, tbr) among those descriptors, missing
\* values counted as 0; otherwise it is the URL of a descriptor maximal by
\* that tuple among the descriptors with a non-empty URL (null when there is
\* none).
C7_Selection ==
    (spc = "done" /\ Selected.requested_formats = <<>> /\ ~Truthy(Selected.url)) =>
        IF PrefIdx # {}
        THEN \E i \in PrefIdx :
                MaximalIn(i, PrefIdx) /\ direct = Selected.formats[i].url
        ELSE IF UrlIdx # {}
        THEN \E i \in UrlIdx :
                MaximalIn(i, UrlIdx) /\ direct = Selected.formats[i].url
        ELSE direct = NoStr

\* two preferred descriptors that differ only in the last component of the
\* key, the later one the greater: its URL is chosen
C7_Witness ==
    /\ spc = "done"
    /\ Selected.requested_formats = <<>>
    /\ ~Truthy(Selected.url)
    /\ PrefIdx = {1, 2}
    /\ Quality(Selected.formats[1]) = <<2, 1, 0>>
    /\ Quality(Selected.formats[2]) = <<2, 1, 1>>
    /\ direct = "f2"

\* ---- safe_filename
\* the input without its leading and trailing whitespace, by position
NonBlank(n) == { i \in DOMAIN n : n[i] \notin Whitespace }
Lowest(S) == CHOOSE i \in S : \A j \in S : i <= j
Highest(S) == CHOOSE i \in S : \A j \in S : j <= i
Stripped(n) ==
    IF NonBlank(n) = {} THEN <<>>
    ELSE SubSeq(n, Lowest(NonBlank(n)), Highest(NonBlank(n)))
Base(f) == SubSeq(f, 1, Len(f) - 4)

\* C8. For every name (None, empty and whitespace-only included)
\* safe_filename returns base + ".mp4", where base is non-empty, at most 100
\* characters long and free of < > : " / \ | ? * newline, carriage return
\* and tab; base is the stripped input, cut to 100 characters, with each such
\* character replaced by "_" ("video" when nothing is left); and
\* "My: Video? <Test>" yields "My_ Video_ _Test_.mp4".
C8_SafeFilename ==
    fpc = "done" =>
        /\ Len(fname) >= 5
        /\ SubSeq(fname, Len(fname) - 3, Len(fname)) = DotMp4
        /\ Len(Base(fname)) <= 100
        /\ \A i \in DOMAIN Base(fname) : Base(fname)[i] \notin Forbidden
        /\ IF name = NoName \/ Stripped(name) = <<>>
           THEN Base(fname) = Fallback
           ELSE /\ Len(Base(fname)) =
                     (IF Len(Stripped(name)) < 100 THEN Len(Stripped(name)) ELSE 100)
                /\ \A i \in DOMAIN Base(fname) :
                     Base(fname)[i] =
                        (IF Stripped(name)[i] \in Forbidden
                         THEN "_" ELSE Stripped(name)[i])
        /\ name = Example => fname = ExampleResult

\* a name longer than 100 characters after stripping, every one of them a
\* forbidden character: the base is 100 underscores
C8_Witness ==
    /\ fpc = "done"
    /\ name # NoName
    /\ Len(Stripped(name)) = 101
    /\ \A i \in DOMAIN name : name[i] = ":"
    /\ fname = Fill("_", 100) \o DotMp4

\* ---- download endpoint
NoArtifacts == ~tmp /\ \A f \in FileNames : files[f] = "none"

\* C3. Within one download request the strategies run in strict order:
\* Strategy A is attempted first and exactly once; Strategy B at most once
\* and only if Strategy A returned no file; if Strategy A yields a file,
\* Strategy B is never attempted and A's file is the result; the request
\* fails (400) only after both strategies were attempted and neither
\* returned a file.
C3_StrategyOrder ==
    /\ tried \in {<<>>, <<"A">>, <<"A", "B">>}
    /\ dpc \in {"idle", "meta", "mkdtemp", "tryA"} => tried = <<>>
    /\ dpc \in {"tryB", "check", "sending", "task"} => tried # <<>>
    /\ dpc = "tryB" => tried = <<"A">>
    /\ tried = <<"A", "B">> => resA = NoPath
    /\ resA # NoPath => (tried = <<"A">> /\ path = resA)
    /\ status = 400 => (tried = <<"A", "B">> /\ resA = NoPath /\ resB = NoPath)
    /\ status = 200 => (path # NoPath /\ path = (IF resA # NoPath THEN resA ELSE resB))

\* Strategy A raised after writing a file, Strategy B found nothing it could
\* return, and the request failed
C3_Witness ==
    /\ dpc = "done"
    /\ status = 400
    /\ tried = <<"A", "B">>
    /\ resA = NoPath
    /\ resB = NoPath

\* C4 as stated: every download request that ends without having delivered
\* the file ends with status 400 and the documented message, and leaves no
\* temporary directory or file behind.
C4_Original ==
    (dpc = "done" /\ delivery # "ok") =>
        /\ status = 400
        /\ detail = FailureMessage
        /\ NoArtifacts

\* C5 as stated: once the materializer has returned a file, the file and its
\* directory exist while the body is being delivered, cleanup has not run
\* before delivery ended, and when the request has completed, delivery
\* having succeeded or failed, neither the file nor the directory remains.
C5_Original ==
    /\ delivery = "sending" => (tmp /\ Exists(files, path))
    /\ (status = 200 /\ ~tmp) => delivery \in {"ok", "failed"}
    /\ (dpc = "done" /\ status = 200) => NoArtifacts

\* C10 as stated: a file returned after Strategy B was attempted is one that
\* Strategy B itself wrote; a file Strategy A left behind when it failed is
\* never the request's result.
C10_Original ==
    (dpc = "check" /\ tried = <<"A", "B">> /\ path # NoPath) => files[path] = "B"

====
